---- MODULE Spec2Model ----
(***************************************************************************)
(* Model of goscon's main.go: the backend host pool (LocalConnProvider),   *)
(* its reload path, host selection, CreateLocalConn, the wrapper hook      *)
(* registry, the signal-driven control loop and main's startup sequence.   *)
(***************************************************************************)
EXTENDS Integers, Sequences, FiniteSets, TLC

\* ---------------------------------------------------------------- bounds
\* Hosts in a pool file: of the whole-program specification, and of the
\* specifications that are about the pool's content.
PoolHosts == 1
MaxHosts == 2
MaxWeight == 2
MaxHooks == 2

\* ------------------------------------------------------------- constants
SIG_RELOAD == 34
SIG_STATUS == 35
SIGTERM == 15
SigChanCap == 1

Nil == "nil"

\* A *Host is a sequence: empty for nil, else the one Host pointed to.
NilHost == <<>>

\* ---------------------------------------------------------- input domains
AddrStrings == {"10.0.0.1:80", "nohost:80"}
Unresolvable == {"nohost:80"}
Weights == (0 - 1)..MaxWeight
TargetNames == {"", "a", "b"}

\* Host names in the pool files of the whole-program specifications, and of
\* the specification of host selection alone.
PoolNames == {"a"}
SelectNames == {"a", "b"}

\* A Host as decoded from the pool file: addr is not resolved yet.
Host(names) == [Addr : AddrStrings, Weight : Weights, Name : names, addr : {Nil}]

SeqsUpTo(S, n) == UNION {[1..k -> S] : k \in 0..n}

\* What Reload can find when it opens and decodes ConfigFile.
FileOutcomes(names, n) ==
    {[kind |-> "open_err", hosts |-> <<>>], [kind |-> "decode_err", hosts |-> <<>>]}
    \cup {[kind |-> "config", hosts |-> hs] : hs \in SeqsUpTo(Host(names), n)}

ReloadFiles == FileOutcomes(PoolNames, PoolHosts)
PoolFiles == FileOutcomes(PoolNames, MaxHosts)
SelectFiles == FileOutcomes(SelectNames, MaxHosts)

Signals == {SIG_RELOAD, SIG_STATUS, SIGTERM}

VARIABLES
    mainPc,           \* position of main (and of the package init before it)
    glbWrapperHooks,  \* registered hooks, each named by the wrapper it sets
    hookIdx,          \* hooks that wrapperHook has run to completion
    listening,        \* glbScpServer.Start was launched (for tcp, kcp or both)
    glbScpServer,     \* Nil until NewSCPServer returned
    tp_hosts,         \* LocalConnProvider.hosts
    tp_weight,        \* LocalConnProvider.weight
    tp_wrapper,       \* LocalConnProvider.wrapper
    mu,               \* LocalConnProvider's embedded sync.Mutex
    sigPc,            \* position of the handleSignal goroutine
    sigChan,          \* channel c
    sigCur,           \* sig, the signal last received
    rlWeight,         \* reset's local weight while its store is pending
    rlErr,            \* Reload's return value while reload() is running
    sigLog,           \* line logged by the loop since its last receive
    clPc,             \* position of the CreateLocalConn caller
    clPref,           \* remoteConn.TargetServer()
    clV,              \* v in GetHostByWeight
    clHost,           \* host returned by GetHost
    clConn,           \* conn: the connection dialed by this call
    clDials,          \* dials made by this call
    clRet             \* (conn, err) returned by CreateLocalConn

mainVars == <<mainPc, glbWrapperHooks, hookIdx, listening, glbScpServer>>
poolVars == <<tp_hosts, tp_weight, mu>>
sigVars == <<sigPc, sigChan, sigCur, rlWeight, rlErr, sigLog>>
clVars == <<clPc, clPref, clV, clHost, clConn, clDials, clRet>>
vars == <<mainVars, poolVars, tp_wrapper, sigVars, clVars>>

NoRet == [conn |-> Nil, err |-> Nil]
NoConn == [addr |-> Nil, state |-> "none"]

Init ==
    /\ mainPc = "init"
    /\ glbWrapperHooks = <<>>
    /\ hookIdx = 0
    /\ listening = FALSE
    /\ glbScpServer = Nil
    /\ tp_hosts = <<>>
    /\ tp_weight = 0
    /\ tp_wrapper = Nil
    /\ mu = "unlocked"
    /\ sigPc = "off"
    /\ sigChan = <<>>
    /\ sigCur = 0
    /\ rlWeight = 0
    /\ rlErr = Nil
    /\ sigLog = <<>>
    /\ clPc = "idle"
    /\ clPref = ""
    /\ clV = 0
    /\ clHost = NilHost
    /\ clConn = NoConn
    /\ clDials = 0
    /\ clRet = NoRet

\* ------------------------------------------------------- pure functions

ResolveTCPAddr(a) == IF a \in Unresolvable THEN Nil ELSE "tcp://" \o a

RECURSIVE SumWeights(_)
SumWeights(hosts) ==
    IF hosts = <<>> THEN 0 ELSE Head(hosts).Weight + SumWeights(Tail(hosts))

\* The loop of reset: resolve each address in order, accumulate the weight.
RECURSIVE resetLoop(_, _, _)
resetLoop(hosts, i, weight) ==
    IF i > Len(hosts) THEN [err |-> Nil, hosts |-> hosts, weight |-> weight]
    ELSE LET a == ResolveTCPAddr(hosts[i].Addr) IN
         IF a = Nil THEN [err |-> "resolve", hosts |-> hosts, weight |-> weight]
         ELSE resetLoop([hosts EXCEPT ![i].addr = a], i + 1, weight + hosts[i].Weight)

resetStoreBeforeCheck(hosts) ==
    LET r == resetLoop(hosts, 1, 0) IN
    IF r.err # Nil THEN [err |-> r.err, publish |-> FALSE, hosts |-> r.hosts, weight |-> r.weight]
    ELSE IF r.weight <= 0 THEN [err |-> "no hosts", publish |-> TRUE, hosts |-> r.hosts, weight |-> r.weight]
    ELSE [err |-> Nil, publish |-> TRUE, hosts |-> r.hosts, weight |-> r.weight]

\* reset up to the point where it takes the lock: publish says whether the
\* stores to tp.hosts and tp.weight follow.
reset(hosts) ==
    LET r == resetLoop(hosts, 1, 0) IN
    IF r.err # Nil THEN [err |-> r.err, publish |-> FALSE, hosts |-> r.hosts, weight |-> r.weight]
    ELSE IF r.weight <= 0 THEN [err |-> "no hosts", publish |-> FALSE, hosts |-> r.hosts, weight |-> r.weight]
    ELSE [err |-> Nil, publish |-> TRUE, hosts |-> r.hosts, weight |-> r.weight]

Reload(f) ==
    IF f.kind = "open_err" THEN [err |-> "open", publish |-> FALSE, hosts |-> <<>>, weight |-> 0]
    ELSE IF f.kind = "decode_err" THEN [err |-> "decode", publish |-> FALSE, hosts |-> <<>>, weight |-> 0]
    ELSE reset(f.hosts)

\* The loop of GetHostByWeight, after v was drawn.
RECURSIVE weightWalk(_, _, _)
weightWalk(hosts, i, v) ==
    IF i > Len(hosts) THEN NilHost
    ELSE IF hosts[i].Weight >= v THEN <<hosts[i]>>
    ELSE weightWalk(hosts, i + 1, v - hosts[i].Weight)

GetHostByWeight(hosts, v) == weightWalk(hosts, 1, v)

RECURSIVE nameWalk(_, _, _)
nameWalk(hosts, i, name) ==
    IF i > Len(hosts) THEN NilHost
    ELSE IF hosts[i].Name = name THEN <<hosts[i]>>
    ELSE nameWalk(hosts, i + 1, name)

GetHostByNameLast(hosts, name) ==
    LET I == {i \in 1..Len(hosts) : hosts[i].Name = name} IN
    IF I = {} THEN NilHost ELSE <<hosts[CHOOSE i \in I : \A j \in I : j <= i]>>

GetHostByName(hosts, name) == nameWalk(hosts, 1, name)

MustSetWrapperOverwrite(cur, wrapper) == [panic |-> FALSE, wrapper |-> wrapper]

MustSetWrapper(cur, wrapper) ==
    IF cur # Nil THEN [panic |-> TRUE, wrapper |-> cur]
    ELSE [panic |-> FALSE, wrapper |-> wrapper]

\* ------------------------------------------------------------ startup

Alive == mainPc \notin {"exit", "panic"}

\* Package init functions register hooks before main runs.
installWrapperHook ==
    /\ mainPc = "init"
    /\ Len(glbWrapperHooks) < MaxHooks
    /\ glbWrapperHooks' = Append(glbWrapperHooks, "wrapper" \o ToString(Len(glbWrapperHooks) + 1))
    /\ UNCHANGED <<mainPc, hookIdx, listening, glbScpServer>>
    /\ UNCHANGED <<poolVars, tp_wrapper, sigVars, clVars>>

\* main, lines 250-272: flag.Parse and construction of the provider.
Main_Parse ==
    /\ mainPc = "init"
    /\ mainPc' = "reload"
    /\ UNCHANGED <<glbWrapperHooks, hookIdx, listening, glbScpServer>>
    /\ UNCHANGED <<poolVars, tp_wrapper, sigVars, clVars>>

\* main, lines 274-277: the initial Reload; nothing else runs yet.
Main_Reload(files) ==
    /\ mainPc = "reload"
    /\ \E f \in files :
         LET r == Reload(f) IN
         /\ IF r.publish
            THEN tp_hosts' = r.hosts /\ tp_weight' = r.weight
            ELSE UNCHANGED <<tp_hosts, tp_weight>>
         /\ rlErr' = r.err
         /\ mainPc' = IF r.err # Nil THEN "exit" ELSE "hooks"
    /\ UNCHANGED <<glbWrapperHooks, hookIdx, listening, glbScpServer>>
    /\ UNCHANGED <<mu, tp_wrapper, clVars>>
    /\ UNCHANGED <<sigPc, sigChan, sigCur, rlWeight, sigLog>>

\* main, line 279: one iteration of wrapperHook's loop, or its end.
Main_WrapperHook ==
    /\ mainPc = "hooks"
    /\ IF hookIdx < Len(glbWrapperHooks)
       THEN LET r == MustSetWrapper(tp_wrapper, glbWrapperHooks[hookIdx + 1]) IN
            /\ tp_wrapper' = r.wrapper
            /\ IF r.panic
               THEN mainPc' = "panic" /\ UNCHANGED hookIdx
               ELSE mainPc' = "hooks" /\ hookIdx' = hookIdx + 1
       ELSE /\ mainPc' = "goSignal"
            /\ UNCHANGED <<tp_wrapper, hookIdx>>
    /\ UNCHANGED <<glbWrapperHooks, listening, glbScpServer>>
    /\ UNCHANGED <<poolVars, sigVars, clVars>>

\* main, line 285: go handleSignal().
Main_GoSignal ==
    /\ mainPc = "goSignal"
    /\ mainPc' = "newServer"
    /\ sigPc' = "notify"
    /\ UNCHANGED <<glbWrapperHooks, hookIdx, listening, glbScpServer>>
    /\ UNCHANGED <<poolVars, tp_wrapper, clVars>>
    /\ UNCHANGED <<sigChan, sigCur, rlWeight, rlErr, sigLog>>

\* main, lines 287-291: glbScpServer = NewSCPServer(...).
Main_NewServer ==
    /\ mainPc = "newServer"
    /\ glbScpServer' = "server"
    /\ mainPc' = "start"
    /\ UNCHANGED <<glbWrapperHooks, hookIdx, listening>>
    /\ UNCHANGED <<poolVars, tp_wrapper, sigVars, clVars>>

\* main, lines 295-316: tcp is the default; one Start goroutine per transport
\* whose flag was given, then main blocks in wg.Wait.
Main_Start ==
    /\ mainPc = "start"
    /\ \E tcpSet \in BOOLEAN, kcpSet \in BOOLEAN :
         LET tcp == tcpSet \/ (~kcpSet /\ ~tcpSet) IN
         listening' = (tcp \/ kcpSet)
    /\ mainPc' = "wait"
    /\ UNCHANGED <<glbWrapperHooks, hookIdx, glbScpServer>>
    /\ UNCHANGED <<poolVars, tp_wrapper, sigVars, clVars>>

\* --------------------------------------------------------- control loop

\* handleSignal, lines 183-184: make the channel and register it.
Sig_Notify ==
    /\ Alive
    /\ sigPc = "notify"
    /\ sigPc' = "recv"
    /\ UNCHANGED <<sigChan, sigCur, rlWeight, rlErr, sigLog>>
    /\ UNCHANGED <<mainVars, poolVars, tp_wrapper, clVars>>

\* The runtime forwards a registered signal with a non-blocking send: it is
\* queued while the channel has room and dropped otherwise.
Sig_Deliver ==
    /\ Alive
    /\ sigPc \notin {"off", "notify"}
    /\ Len(sigChan) < SigChanCap
    /\ \E s \in Signals : sigChan' = Append(sigChan, s)
    /\ UNCHANGED <<sigPc, sigCur, rlWeight, rlErr, sigLog>>
    /\ UNCHANGED <<mainVars, poolVars, tp_wrapper, clVars>>

\* handleSignal, line 186: for sig := range c.
Sig_Recv ==
    /\ Alive
    /\ sigPc = "recv"
    /\ sigChan # <<>>
    /\ sigCur' = Head(sigChan)
    /\ sigChan' = Tail(sigChan)
    /\ sigPc' = "handle"
    /\ sigLog' = <<>>
    /\ UNCHANGED <<rlWeight, rlErr>>
    /\ UNCHANGED <<mainVars, poolVars, tp_wrapper, clVars>>

\* case SIG_RELOAD: reload() up to reset's first store. A failing Reload
\* returns here and is logged; a passing one takes the lock and stores
\* tp.hosts (lines 136-137).
Sig_Reload(files) ==
    /\ Alive
    /\ sigPc = "handle"
    /\ sigCur = SIG_RELOAD
    /\ \E f \in files :
         LET r == Reload(f) IN
         IF r.publish
         THEN /\ mu = "unlocked"
              /\ mu' = "locked"
              /\ tp_hosts' = r.hosts
              /\ rlWeight' = r.weight
              /\ rlErr' = r.err
              /\ sigPc' = "reset_weight"
              /\ UNCHANGED sigLog
         ELSE /\ sigLog' = <<"reload failed", r.err>>
              /\ sigPc' = "recv"
              /\ UNCHANGED <<mu, tp_hosts, rlWeight, rlErr>>
    /\ UNCHANGED <<tp_weight, sigChan, sigCur>>
    /\ UNCHANGED <<mainVars, tp_wrapper, clVars>>

\* reset, lines 138-140, and the rest of reload(): store tp.weight, unlock,
\* log the outcome.
Sig_ResetWeight ==
    /\ Alive
    /\ sigPc = "reset_weight"
    /\ tp_weight' = rlWeight
    /\ mu' = "unlocked"
    /\ sigLog' = IF rlErr # Nil THEN <<"reload failed", rlErr>> ELSE <<"reload succeed">>
    /\ sigPc' = "recv"
    /\ rlWeight' = 0
    /\ rlErr' = Nil
    /\ UNCHANGED <<tp_hosts, sigChan, sigCur>>
    /\ UNCHANGED <<mainVars, tp_wrapper, clVars>>

\* case SIG_STATUS: status() calls glbScpServer.NumOfConnPairs() and logs;
\* the log line records the receiver the call was made on.
Sig_Status ==
    /\ Alive
    /\ sigPc = "handle"
    /\ sigCur = SIG_STATUS
    /\ sigLog' = <<"status", glbScpServer>>
    /\ sigPc' = "recv"
    /\ UNCHANGED <<sigChan, sigCur, rlWeight, rlErr>>
    /\ UNCHANGED <<mainVars, poolVars, tp_wrapper, clVars>>

Sig_TermExit ==
    /\ Alive
    /\ sigPc = "handle"
    /\ sigCur = SIGTERM
    /\ sigLog' = <<"catch sigterm, ignore">>
    /\ sigPc' = "stopped"
    /\ UNCHANGED <<sigChan, sigCur, rlWeight, rlErr>>
    /\ UNCHANGED <<mainVars, poolVars, tp_wrapper, clVars>>

\* case syscall.SIGTERM: logged and ignored.
Sig_Term ==
    /\ Alive
    /\ sigPc = "handle"
    /\ sigCur = SIGTERM
    /\ sigLog' = <<"catch sigterm, ignore">>
    /\ sigPc' = "recv"
    /\ UNCHANGED <<sigChan, sigCur, rlWeight, rlErr>>
    /\ UNCHANGED <<mainVars, poolVars, tp_wrapper, clVars>>

\* ------------------------------------------------------ CreateLocalConn

\* GetHost, lines 88-94: which lookup runs, and the result of the by-name one.
GetHost(hosts, preferred) ==
    IF preferred = "" THEN [weighted |-> TRUE, host |-> NilHost]
    ELSE [weighted |-> FALSE, host |-> GetHostByName(hosts, preferred)]

\* CreateLocalConn, line 97, up to GetHost's first read of the provider.
\* An empty target reads tp.weight and draws v (line 68); a named target
\* runs GetHostByName on tp.hosts.
CL_GetHost ==
    /\ Alive
    /\ listening
    /\ clPc = "idle"
    /\ \E preferred \in TargetNames :
         LET g == GetHost(tp_hosts, preferred) IN
         /\ clPref' = preferred
         /\ IF g.weighted
            THEN /\ \E v \in 0..(tp_weight - 1) : clV' = v
                 /\ clPc' = "walk"
                 /\ UNCHANGED <<clHost, clRet>>
            ELSE /\ clHost' = g.host
                 /\ clV' = 0
                 /\ IF g.host = NilHost
                    THEN clPc' = "done" /\ clRet' = [conn |-> Nil, err |-> "errNoHost"]
                    ELSE clPc' = "dial" /\ clRet' = NoRet
    /\ UNCHANGED <<clConn, clDials>>
    /\ UNCHANGED <<mainVars, poolVars, tp_wrapper, sigVars>>

\* GetHostByWeight, lines 69-75: the walk over tp.hosts, read without the lock.
CL_Walk ==
    /\ Alive
    /\ clPc = "walk"
    /\ LET host == GetHostByWeight(tp_hosts, clV) IN
       /\ clHost' = host
       /\ IF host = NilHost
          THEN clPc' = "done" /\ clRet' = [conn |-> Nil, err |-> "errNoHost"]
          ELSE clPc' = "dial" /\ clRet' = NoRet
    /\ UNCHANGED <<clPref, clV, clConn, clDials>>
    /\ UNCHANGED <<mainVars, poolVars, tp_wrapper, sigVars>>

CL_DialRetry ==
    /\ Alive
    /\ clPc = "dial"
    /\ clDials < 2
    /\ clDials' = clDials + 1
    /\ \E ok \in BOOLEAN :
         IF ~ok
         THEN /\ clPc' = "dial"
              /\ UNCHANGED <<clConn, clRet, clHost, clV>>
         ELSE /\ clConn' = [addr |-> clHost[1].addr, state |-> "open"]
              /\ clHost' = NilHost
              /\ clV' = 0
              /\ IF tp_wrapper = Nil
                 THEN clPc' = "done" /\ clRet' = [conn |-> "conn", err |-> Nil]
                 ELSE clPc' = "wrap" /\ clRet' = NoRet
    /\ UNCHANGED clPref
    /\ UNCHANGED <<mainVars, poolVars, tp_wrapper, sigVars>>

\* CreateLocalConn, lines 102-109: the dial of host.addr, and the return when
\* it fails or when no wrapper is installed.
CL_Dial ==
    /\ Alive
    /\ clPc = "dial"
    /\ clDials' = clDials + 1
    /\ clHost' = NilHost
    /\ clV' = 0
    /\ \E ok \in BOOLEAN :
         IF ~ok
         THEN /\ clPc' = "done"
              /\ clRet' = [conn |-> Nil, err |-> "dial"]
              /\ UNCHANGED clConn
         ELSE /\ clConn' = [addr |-> clHost[1].addr, state |-> "open"]
              /\ IF tp_wrapper = Nil
                 THEN clPc' = "done" /\ clRet' = [conn |-> "conn", err |-> Nil]
                 ELSE clPc' = "wrap" /\ clRet' = NoRet
    /\ UNCHANGED clPref
    /\ UNCHANGED <<mainVars, poolVars, tp_wrapper, sigVars>>

CL_WrapLeak ==
    /\ Alive
    /\ clPc = "wrap"
    /\ \E ok \in BOOLEAN :
         IF ~ok
         THEN clRet' = [conn |-> Nil, err |-> "wrapper"]
         ELSE clRet' = [conn |-> "newConn", err |-> Nil]
    /\ clPc' = "done"
    /\ UNCHANGED <<clPref, clV, clHost, clConn, clDials>>
    /\ UNCHANGED <<mainVars, poolVars, tp_wrapper, sigVars>>

\* CreateLocalConn, lines 111-117: the wrapper; its failure closes conn.
CL_Wrap ==
    /\ Alive
    /\ clPc = "wrap"
    /\ \E ok \in BOOLEAN :
         IF ~ok
         THEN /\ clConn' = [clConn EXCEPT !.state = "closed"]
              /\ clRet' = [conn |-> Nil, err |-> "wrapper"]
         ELSE /\ clRet' = [conn |-> "newConn", err |-> Nil]
              /\ UNCHANGED clConn
    /\ clPc' = "done"
    /\ UNCHANGED <<clPref, clV, clHost, clDials>>
    /\ UNCHANGED <<mainVars, poolVars, tp_wrapper, sigVars>>

\* The caller has taken the result; the next accepted client calls again.
CL_Return ==
    /\ Alive
    /\ clPc = "done"
    /\ clPc' = "idle"
    /\ clPref' = ""
    /\ clV' = 0
    /\ clHost' = NilHost
    /\ clConn' = NoConn
    /\ clDials' = 0
    /\ clRet' = NoRet
    /\ UNCHANGED <<mainVars, poolVars, tp_wrapper, sigVars>>

\* ------------------------------------------------------- specifications

SigNext(files) ==
    \/ Sig_Notify
    \/ Sig_Recv
    \/ Sig_Reload(files)
    \/ Sig_ResetWeight
    \/ Sig_Status
    \/ Sig_Term

Next(files) ==
    \/ installWrapperHook
    \/ Main_Parse
    \/ Main_Reload(files)
    \/ Main_WrapperHook
    \/ Main_GoSignal
    \/ Main_NewServer
    \/ Main_Start
    \/ Sig_Notify
    \/ Sig_Deliver
    \/ Sig_Recv
    \/ Sig_Reload(files)
    \/ Sig_ResetWeight
    \/ Sig_Status
    \/ Sig_Term
    \/ CL_GetHost
    \/ CL_Walk
    \/ CL_Dial
    \/ CL_Wrap
    \/ CL_Return

\* The whole program, its pool file holding up to PoolHosts hosts.
Spec == Init /\ [][Next(ReloadFiles)]_vars

\* The same, with the handleSignal goroutine scheduled fairly.
FairSpec == Spec /\ WF_vars(SigNext(ReloadFiles))

\* The whole program, its pool file holding up to MaxHosts hosts.
SpecPools == Init /\ [][Next(PoolFiles)]_vars

\* Host selection alone: the provider after startup, holding any pool that
\* reset publishes, and one caller of CreateLocalConn.
InitSelect ==
    /\ mainPc = "wait"
    /\ \E n \in 0..1 :
         /\ glbWrapperHooks = [i \in 1..n |-> "wrapper" \o ToString(i)]
         /\ hookIdx = n
         /\ tp_wrapper = IF n = 0 THEN Nil ELSE "wrapper1"
    /\ listening = TRUE
    /\ glbScpServer = "server"
    /\ \E f \in SelectFiles :
         /\ Reload(f).publish
         /\ tp_hosts = Reload(f).hosts
         /\ tp_weight = Reload(f).weight
    /\ mu = "unlocked"
    /\ sigPc = "recv"
    /\ sigChan = <<>>
    /\ sigCur = 0
    /\ rlWeight = 0
    /\ rlErr = Nil
    /\ sigLog = <<>>
    /\ clPc = "idle"
    /\ clPref = ""
    /\ clV = 0
    /\ clHost = NilHost
    /\ clConn = NoConn
    /\ clDials = 0
    /\ clRet = NoRet

NextSelect ==
    \/ CL_GetHost
    \/ CL_Walk
    \/ CL_Dial
    \/ CL_Wrap
    \/ CL_Return

SpecSelect == InitSelect /\ [][NextSelect]_vars

\* ------------------------------------------------------------- properties

PrefixWeight(hosts, i) == SumWeights(SubSeq(hosts, 1, i))

\* The first host whose cumulative weight exceeds v, nil if there is none.
FirstExceeding(hosts, v) ==
    LET I == {i \in 1..Len(hosts) : PrefixWeight(hosts, i) > v} IN
    IF I = {} THEN NilHost ELSE <<hosts[CHOOSE i \in I : \A j \in I : i <= j]>>

\* The first host of that name, nil if there is none.
FirstNamed(hosts, name) ==
    LET I == {i \in 1..Len(hosts) : hosts[i].Name = name} IN
    IF I = {} THEN NilHost ELSE <<hosts[CHOOSE i \in I : \A j \in I : i <= j]>>

\* C1: for a published pool of total weight W > 0 and a draw v in [0, W),
\* GetHostByWeight returns the first host whose cumulative weight exceeds v.
C1_FirstExceedingDraw ==
    [][(clPc = "walk" /\ clPc' # "walk" /\ tp_weight > 0 /\ clV \in 0..(tp_weight - 1))
        => clHost' = FirstExceeding(tp_hosts, clV)]_vars

\* C2: a weighted lookup that overlaps a pool replacement works on the hosts
\* and the total weight of one pool, so it never ends in no-host (every pool
\* ever published has hosts and a positive total).
C2_LookupSeesOnePool ==
    (clPc = "done" /\ clPref = "") => clRet.err # "errNoHost"

\* C3: a Reload that fails leaves tp.hosts and tp.weight as they were: the
\* step that reports the failure changes neither, and the pool is only ever
\* stored by a Reload whose error is nil.
C3_FailedReloadKeepsPool ==
    [][/\ (sigLog' # sigLog /\ sigLog' # <<>> /\ sigLog'[1] = "reload failed")
            => UNCHANGED <<tp_hosts, tp_weight>>
       /\ (mainPc = "reload" /\ mainPc' = "exit") => UNCHANGED <<tp_hosts, tp_weight>>
       /\ (tp_hosts' # tp_hosts \/ tp_weight' # tp_weight) => (rlErr = Nil /\ rlErr' = Nil)]_vars

\* A reload failed on a total weight <= 0 while a pool loaded earlier is active.
C3_Witness ==
    /\ sigLog = <<"reload failed", "no hosts">>
    /\ sigPc = "recv"
    /\ tp_hosts # <<>>
    /\ tp_weight = SumWeights(tp_hosts)

\* C4: once the initial load has succeeded and no reset is in progress, every
\* published host has weight >= 0 and a resolved address, and tp.weight is
\* the sum of the host weights and > 0.
C4_PublishedPoolValid ==
    (mainPc \notin {"init", "reload", "exit"} /\ mu = "unlocked") =>
        /\ \A i \in 1..Len(tp_hosts) : tp_hosts[i].Weight >= 0 /\ tp_hosts[i].addr # Nil
        /\ tp_weight = SumWeights(tp_hosts)
        /\ tp_weight > 0

\* C5: a named lookup returns the first host of that name and nil when no
\* host has it, never a host of another name; weighted selection is used
\* exactly for the empty name.
C5_ByNameTotal ==
    /\ (clPref # "" /\ clPc = "dial") =>
           /\ clHost # NilHost
           /\ clHost = FirstNamed(tp_hosts, clPref)
           /\ clHost[1].Name = clPref
    /\ (clPref # "" /\ clPc = "done" /\ clRet.err = "errNoHost") =>
           \A i \in 1..Len(tp_hosts) : tp_hosts[i].Name # clPref
    /\ (clPref # "" /\ clPc = "done") =>
           (clRet.err = "errNoHost" <=> FirstNamed(tp_hosts, clPref) = NilHost)
    /\ clPc = "walk" => clPref = ""
    /\ (clPref = "" /\ clPc = "dial") =>
           \E v \in 0..(tp_weight - 1) : clHost = GetHostByWeight(tp_hosts, v)

\* Two hosts share the name asked for, and the first one was returned.
C5_Witness ==
    /\ clPc = "dial"
    /\ clPref = "a"
    /\ Len(tp_hosts) = 2
    /\ tp_hosts[1].Name = "a"
    /\ tp_hosts[2].Name = "a"
    /\ tp_hosts[1] # tp_hosts[2]
    /\ clHost = <<tp_hosts[1]>>

\* C6: a CreateLocalConn call dials at most once; errNoHost is returned
\* without any dial, a failed dial is returned as it is, and a connection is
\* returned only after the one dial succeeded.
C6_AtMostOneDial ==
    /\ clDials <= 1
    /\ clRet.err = "errNoHost" => (clDials = 0 /\ clConn = NoConn)
    /\ clRet.err = "dial" => (clDials = 1 /\ clRet.conn = Nil /\ clConn = NoConn /\ clPc = "done")
    /\ clRet.conn # Nil => (clDials = 1 /\ clConn.state = "open" /\ clConn.addr # Nil)
    /\ (clPc = "dial" \/ clPc = "walk") => clDials = 0

\* The one dial failed and its error was returned.
C6_Witness ==
    clPc = "done" /\ clRet.err = "dial" /\ clDials = 1

C8_WrapperFailureCloses ==
    /\ (clPc = "done" /\ clRet.err # Nil) => (clRet.conn = Nil /\ clConn.state # "open")
    /\ (clPc = "done" /\ clRet.err = "wrapper") => clConn.state = "closed"
    /\ (clPc = "done" /\ clRet.err = Nil /\ tp_wrapper = Nil) =>
           (clRet.conn = "conn" /\ clConn.state = "open")
    /\ (clPc = "done" /\ clRet.err = Nil /\ tp_wrapper # Nil) =>
           (clRet.conn = "newConn" /\ clConn.state = "open")

\* The wrapper failed after a successful dial.
C8_Witness ==
    clPc = "done" /\ clRet.err = "wrapper" /\ clConn.state = "closed" /\ tp_wrapper # Nil

\* C9: handling SIGTERM changes nothing but the log and returns the loop to
\* its receive; the loop takes signals from the head of the channel, one at
\* a time; a trigger queued after a SIGTERM was handled is received, and so
\* dispatched to its case.
C9_SigtermKeepsLoop ==
    /\ [][(sigPc = "handle" /\ sigCur = SIGTERM /\ sigPc' # "handle") =>
            /\ sigPc' = "recv"
            /\ UNCHANGED <<mainVars, poolVars, tp_wrapper, clVars, sigChan, rlWeight, rlErr>>]_vars
    /\ [][(sigPc # "handle" /\ sigPc' = "handle") =>
            /\ sigPc = "recv"
            /\ sigChan # <<>>
            /\ sigCur' = Head(sigChan)
            /\ sigChan' = Tail(sigChan)]_vars
    /\ (sigLog = <<"catch sigterm, ignore">> /\ sigChan # <<>>) ~> (sigPc = "handle")

\* SIGTERM was handled, the loop is back at its receive and a reload
\* trigger delivered afterwards is waiting.
C9_Witness ==
    /\ sigLog = <<"catch sigterm, ignore">>
    /\ sigPc = "recv"
    /\ sigCur = SIGTERM
    /\ sigChan = <<SIG_RELOAD>>

\* C10: status() never runs while glbScpServer is still unassigned.
C10_StatusAfterServer ==
    (sigLog # <<>> /\ sigLog[1] = "status") => sigLog[2] # Nil

====
